---- MODULE Spec2Model ----
(***************************************************************************)
(* The todo application of src/src/App.tsx: the todo collection, the       *)
(* edit session (editingId, editText), the add form's input field and the  *)
(* millisecond clock that addTodo reads for ids.                           *)
(*                                                                         *)
(* Strings are sequences of one-character strings, so that trim() is       *)
(* computed and not assumed.                                               *)
(***************************************************************************)
EXTENDS Integers, Sequences, FiniteSets, TLC

VARIABLES
    todos,      \* App: const [todos, setTodos] = useState<Todo[]>([])
    editingId,  \* App: const [editingId, setEditingId] = useState<number | null>(null)
    editText,   \* App: const [editText, setEditText] = useState<string>('')
    input,      \* TodoForm: const [input, setInput] = useState<string>('')
    message,    \* the validation message the page shows, Null when none; the
                \* components under src/src hold no such state and set none
    now,        \* the value Date.now() returns
    queue,      \* React: the updates of todos dispatched since the last render
    lastOp,     \* history: the operation the last step performed and its id argument
    trail       \* history: the last step's text argument, and the run of
                \* successive toggles of one id with the collection before it

vars == <<todos, editingId, editText, input, message, now, queue, lastOp, trail>>

\* ---------------------------------------------------------------- bounds
MaxTodos == 2       \* the collection is capped at this many records
MaxClock == 2       \* the clock takes the values 1..MaxClock
MaxBatch == 2       \* at most this many updates are dispatched before a render

\* ------------------------------------------------------------ constants
MaxLength == 200    \* TodoForm: <input maxLength={200}>

\* null: no id. Ids are clock values, which are positive.
Null == -1

\* ---------------------------------------------------------------- strings
Space == " "

\* String.prototype.trim(): leading and trailing white space removed.
RECURSIVE TrimStart(_)
TrimStart(s) ==
    IF s = <<>> THEN s
    ELSE IF Head(s) = Space THEN TrimStart(Tail(s)) ELSE s

RECURSIVE TrimEnd(_)
TrimEnd(s) ==
    IF s = <<>> THEN s
    ELSE IF s[Len(s)] = Space THEN TrimEnd(SubSeq(s, 1, Len(s) - 1)) ELSE s

Trim(s) == TrimEnd(TrimStart(s))

\* JavaScript truthiness of a string: the empty string is falsy.
Truthy(s) == s # <<>>

\* A string of n letters.
Fill(n) == [i \in 1..n |-> "a"]

\* What a user types: empty, white space only, plain, padded, another text.
Typed ==
    { <<>>, <<" ">>, <<"a">>, <<" ", "a", " ">>, <<"b">> }

\* Texts at the length limit of the add form: at it, over it, padded up to it.
TypedLong ==
    { <<" ">>, Fill(MaxLength), Fill(MaxLength + 1),
      <<" ">> \o Fill(MaxLength - 1) }

Ids == 1..MaxClock

\* ------------------------------------------------------------------ Init
Init ==
    /\ todos = <<>>
    /\ editingId = Null
    /\ editText = <<>>
    /\ input = <<>>
    /\ message = Null
    /\ now = 1
    /\ queue = <<>>
    /\ lastOp = [op |-> "init", id |-> Null]
    /\ trail = [arg |-> <<>>, toggles |-> 0, start |-> <<>>]

\* ------------------------------------------------------- App's handlers
\* The Todo that addTodo builds; id and createdAt are read from the clock in
\* the same run of the handler.
NewTodo(text) ==
    [id |-> now, text |-> Trim(text), completed |-> FALSE, createdAt |-> now]

\* The updater functions the handlers pass to setTodos.
\* (prevTodos) => [...prevTodos, newTodo]
addUpdater(prevTodos, newTodo) ==
    Append(prevTodos, newTodo)

\* toggleTodo's updater as it would be if it set completed instead of
\* flipping it.
toggleUpdaterCompletes(prevTodos, id) ==
    [i \in 1..Len(prevTodos) |->
        IF prevTodos[i].id = id
        THEN [prevTodos[i] EXCEPT !.completed = TRUE]
        ELSE prevTodos[i]]

\* toggleTodo's updater as it would be if the toggled todos moved to the end.
toggleUpdaterMovesLast(prevTodos, id) ==
    SelectSeq(prevTodos, LAMBDA todo: todo.id # id)
        \o [i \in 1..Len(SelectSeq(prevTodos, LAMBDA todo: todo.id = id)) |->
              [SelectSeq(prevTodos, LAMBDA todo: todo.id = id)[i]
                  EXCEPT !.completed = ~@]]

\* (prevTodos) => prevTodos.map(todo => todo.id === id ? {...} : todo)
toggleUpdater(prevTodos, id) ==
    [i \in 1..Len(prevTodos) |->
        IF prevTodos[i].id = id
        THEN [prevTodos[i] EXCEPT !.completed = ~prevTodos[i].completed]
        ELSE prevTodos[i]]

KeepsId(todo, id) == todo.id # id

\* (prevTodos) => prevTodos.filter(todo => todo.id !== id)
deleteUpdater(prevTodos, id) ==
    SelectSeq(prevTodos, LAMBDA todo: KeepsId(todo, id))

\* addTodo as it would be with the new todo put first.
addTodoPrepend(text) ==
    todos' = <<NewTodo(text)>> \o todos

\* One event, rendered before the next: the updater runs on the current todos.
addTodo(text) ==
    todos' = addUpdater(todos, NewTodo(text))

toggleTodo(id) ==
    todos' = toggleUpdater(todos, id)

deleteTodo(id) ==
    todos' = deleteUpdater(todos, id)

\* startEditing as it would be if it left the draft as it was.
startEditingKeepsDraft(id, currentText) ==
    /\ editingId' = id
    /\ editText' = editText

startEditing(id, currentText) ==
    /\ editingId' = id
    /\ editText' = currentText

\* cancelEdit as it would be if it left the draft as it was.
cancelEditKeepsText ==
    /\ editingId' = Null
    /\ editText' = editText

cancelEdit ==
    /\ editingId' = Null
    /\ editText' = <<>>

\* setEditText as it would be if the draft were trimmed while typing.
setEditTextTrimmed(text) ==
    editText' = Trim(text)

setEditText(text) ==
    editText' = text

\* saveEdit as it would be if a saved todo were marked not completed.
saveEditUncompletes ==
    IF editingId # Null /\ Truthy(Trim(editText))
    THEN /\ todos' = [i \in 1..Len(todos) |->
                        IF todos[i].id = editingId
                        THEN [todos[i] EXCEPT !.text = Trim(editText),
                                              !.completed = FALSE]
                        ELSE todos[i]]
         /\ cancelEdit
    ELSE UNCHANGED <<todos, editingId, editText>>

\* saveEdit as it would be if an empty draft closed the session.
saveEditCancelsBlank ==
    IF editingId # Null /\ Truthy(Trim(editText))
    THEN /\ todos' = [i \in 1..Len(todos) |->
                        IF todos[i].id = editingId
                        THEN [todos[i] EXCEPT !.text = Trim(editText)]
                        ELSE todos[i]]
         /\ cancelEdit
    ELSE /\ todos' = todos
         /\ cancelEdit

saveEdit ==
    IF editingId # Null /\ Truthy(Trim(editText))
    THEN /\ todos' = [i \in 1..Len(todos) |->
                        IF todos[i].id = editingId
                        THEN [todos[i] EXCEPT !.text = Trim(editText)]
                        ELSE todos[i]]
         /\ cancelEdit
    ELSE UNCHANGED <<todos, editingId, editText>>

\* ------------------------------------------------ updates before a render
\* What a handler passes to setTodos when it is called: an updater function
\* with the values its closure holds, or (earlier App) a finished array.
\* addTodo as in the earlier App: setTodos([...todos, newTodo]), the array
\* built from the todos of the render the handler belongs to.
addTodoUpdateFromSnapshot(text) ==
    [fn |-> "value", value |-> Append(todos, NewTodo(text))]

addTodoUpdate(text) ==
    [fn |-> "append", todo |-> NewTodo(text)]

toggleTodoUpdate(id) ==
    [fn |-> "map", id |-> id]

deleteTodoUpdate(id) ==
    [fn |-> "filter", id |-> id]

\* React applies an update to the state the updates before it left.
ApplyUpdate(prevTodos, update) ==
    CASE update.fn = "append" -> addUpdater(prevTodos, update.todo)
      [] update.fn = "map"    -> toggleUpdater(prevTodos, update.id)
      [] update.fn = "filter" -> deleteUpdater(prevTodos, update.id)
      [] update.fn = "value"  -> update.value

RECURSIVE ApplyAll(_, _)
ApplyAll(prevTodos, updates) ==
    IF updates = <<>> THEN prevTodos
    ELSE ApplyAll(ApplyUpdate(prevTodos, Head(updates).update), Tail(updates))

\* ------------------------------------------------------- App's statistics
totalTodos == Len(todos)

\* The statistics as they would be with every todo counted as completed.
completedTodosCountsAll == Len(todos)

IsCompleted(todo) == todo.completed

completedTodos == Len(SelectSeq(todos, IsCompleted))

remainingTodos == totalTodos - completedTodos

\* --------------------------------------------------- TodoForm's handlers
\* The browser keeps the value of an <input maxLength={200}> within 200.
InputAccepts(value) == Len(value) <= MaxLength

handleInputChange(value) ==
    input' = value

\* handleSubmit as it would be without the check of the trimmed input.
TodoFormHandleSubmitUnchecked ==
    /\ addTodo(Trim(input))
    /\ input' = <<>>

TodoFormHandleSubmit ==
    IF Truthy(Trim(input))
    THEN /\ addTodo(Trim(input))
         /\ input' = <<>>
    ELSE UNCHANGED <<todos, input>>

\* ------------------------------------------------------------ rendering
\* App renders EditTodoForm when editingId !== null and TodoList otherwise.
\* The rendering as it would be with the list shown beside the edit form.
ListShownAlways == TRUE

ListShown == editingId = Null
EditFormShown == editingId # Null

\* The Add and Save buttons are disabled while the trimmed text is empty.
AddEnabled == Truthy(Trim(input))
SaveEnabled == Truthy(Trim(editText))

Op(name, id) == [op |-> name, id |-> id]

\* The trail after a step: its text argument; a toggle of the id toggled by
\* the step before makes a run of two, any other toggle starts a run; a render
\* keeps the collection it started from.
Trail(name, id, arg) ==
    LET goesOn == lastOp = Op("toggle", id) /\ trail.toggles = 1
    IN  [arg     |-> arg,
         toggles |-> IF name # "toggle" THEN 0 ELSE IF goesOn THEN 2 ELSE 1,
         start   |-> IF name = "render" THEN todos
                     ELSE IF name # "toggle" THEN <<>>
                     ELSE IF goesOn THEN trail.start ELSE todos]

\* -------------------------------------------------------------- actions
\* Spec: the operations of the store, issued in any order. toggle and delete
\* take any id; startEdit comes from a listed todo (TodoItem.handleEditClick);
\* updateDraft needs an active session, since setEditText is only wired to the
\* EditTodoForm, which App renders while editingId !== null.
Tick ==
    /\ now < MaxClock
    /\ now' = now + 1
    /\ lastOp' = Op("tick", Null)
    /\ trail' = Trail("tick", Null, <<>>)
    /\ UNCHANGED <<todos, editingId, editText, input, message, queue>>

TypeInput(T) ==
    \E value \in T :
        /\ InputAccepts(value)
        /\ handleInputChange(value)
        /\ lastOp' = Op("type", Null)
        /\ trail' = Trail("type", Null, value)
        /\ UNCHANGED <<todos, editingId, editText, message, now, queue>>

Add ==
    /\ Truthy(Trim(input)) => Len(todos) < MaxTodos
    /\ TodoFormHandleSubmit
    /\ lastOp' = Op("add", Null)
    /\ trail' = Trail("add", Null, <<>>)
    /\ UNCHANGED <<editingId, editText, message, now, queue>>

ToggleId(id) ==
    /\ toggleTodo(id)
    /\ lastOp' = Op("toggle", id)
    /\ trail' = Trail("toggle", id, <<>>)
    /\ UNCHANGED <<editingId, editText, input, message, now, queue>>

Toggle == \E id \in Ids : ToggleId(id)

DeleteId(id) ==
    /\ deleteTodo(id)
    /\ lastOp' = Op("delete", id)
    /\ trail' = Trail("delete", id, <<>>)
    /\ UNCHANGED <<editingId, editText, input, message, now, queue>>

Delete == \E id \in Ids : DeleteId(id)

\* TodoItem.handleEditClick: onEditStart(todo.id, todo.text) of a listed todo.
handleEditClick(todo) ==
    startEditing(todo.id, todo.text)

StartEdit ==
    \E i \in 1..Len(todos) :
        /\ handleEditClick(todos[i])
        /\ lastOp' = Op("startEdit", todos[i].id)
        /\ trail' = Trail("startEdit", todos[i].id, <<>>)
        /\ UNCHANGED <<todos, input, message, now, queue>>

\* EditTodoForm's input: onChange(e.target.value), no maxLength.
UpdateDraft(T) ==
    \E text \in T :
        /\ EditFormShown
        /\ setEditText(text)
        /\ lastOp' = Op("updateDraft", Null)
        /\ trail' = Trail("updateDraft", Null, text)
        /\ UNCHANGED <<todos, editingId, input, message, now, queue>>

CommitEdit ==
    /\ saveEdit
    /\ lastOp' = Op("commitEdit", editingId)
    /\ trail' = Trail("commitEdit", editingId, <<>>)
    /\ UNCHANGED <<input, message, now, queue>>

CancelEdit ==
    /\ cancelEdit
    /\ lastOp' = Op("cancelEdit", Null)
    /\ trail' = Trail("cancelEdit", Null, <<>>)
    /\ UNCHANGED <<todos, input, message, now, queue>>

Next ==
    \/ Tick
    \/ TypeInput(Typed)
    \/ Add
    \/ Toggle
    \/ Delete
    \/ StartEdit
    \/ UpdateDraft(Typed)
    \/ CommitEdit
    \/ CancelEdit

Spec == Init /\ [][Next]_vars

\* SpecLen: the same operations on texts around the 200 character limit.
NextLen ==
    \/ Tick
    \/ TypeInput(TypedLong)
    \/ Add
    \/ Toggle
    \/ Delete
    \/ StartEdit
    \/ UpdateDraft(TypedLong)
    \/ CommitEdit
    \/ CancelEdit

SpecLen == Init /\ [][NextLen]_vars

\* SpecUI: the events the rendered page can deliver. TodoForm is always
\* rendered; the list (toggle, delete, edit buttons of the listed todos) is
\* rendered only while ListShown, the edit form only while EditFormShown; a
\* form whose submit button is disabled is not submitted.
UIAdd == AddEnabled /\ Add

UIToggle == ListShown /\ \E i \in 1..Len(todos) : ToggleId(todos[i].id)

UIDelete == ListShown /\ \E i \in 1..Len(todos) : DeleteId(todos[i].id)

UIStartEdit == ListShown /\ StartEdit

UISave == EditFormShown /\ SaveEnabled /\ CommitEdit

UICancel == EditFormShown /\ CancelEdit

NextUI ==
    \/ Tick
    \/ TypeInput(Typed)
    \/ UIAdd
    \/ UIToggle
    \/ UIDelete
    \/ UIStartEdit
    \/ UpdateDraft(Typed)
    \/ UISave
    \/ UICancel

SpecUI == Init /\ [][NextUI]_vars

\* SpecBatch: handlers called one after the other on one render, their
\* updates of todos queued, and the render that applies the queue. An entry of
\* the queue is the call (op, arg) with the update it passed to setTodos.
AddCalls == Cardinality({k \in 1..Len(queue) : queue[k].op = "add"})

Dispatch(op, arg, update) ==
    /\ queue' = Append(queue, [op |-> op, arg |-> arg, update |-> update])
    /\ lastOp' = Op("dispatch", Null)
    /\ trail' = Trail("dispatch", Null, <<>>)
    /\ UNCHANGED <<todos, editingId, editText, input, message, now>>

DispatchAdd ==
    \E text \in {Trim(t) : t \in Typed} \ {<<>>} :
        /\ Len(queue) < MaxBatch
        /\ Len(todos) + AddCalls < MaxTodos
        /\ Dispatch("add", NewTodo(text), addTodoUpdate(text))

DispatchToggle ==
    \E id \in Ids :
        /\ Len(queue) < MaxBatch
        /\ Dispatch("toggle", id, toggleTodoUpdate(id))

DispatchDelete ==
    \E id \in Ids :
        /\ Len(queue) < MaxBatch
        /\ Dispatch("delete", id, deleteTodoUpdate(id))

Render ==
    /\ queue # <<>>
    /\ todos' = ApplyAll(todos, queue)
    /\ queue' = <<>>
    /\ lastOp' = Op("render", Null)
    /\ trail' = Trail("render", Null, <<>>)
    /\ UNCHANGED <<editingId, editText, input, message, now>>

NextBatch ==
    \/ Tick
    \/ DispatchAdd
    \/ DispatchToggle
    \/ DispatchDelete
    \/ Render

SpecBatch == Init /\ [][NextBatch]_vars

\* ------------------------------------------------------------- helpers
Has(seq, id) == \E i \in 1..Len(seq) : seq[i].id = id

Blank(s) == Trim(s) = <<>>

\* a is b with the elements at some positions left out.
RECURSIVE IsSubseq(_, _)
IsSubseq(a, b) ==
    IF a = <<>> THEN TRUE
    ELSE IF b = <<>> THEN FALSE
    ELSE IF Head(a) = Head(b) THEN IsSubseq(Tail(a), Tail(b))
    ELSE IsSubseq(a, Tail(b))

IsPrefix(a, b) == Len(a) <= Len(b) /\ SubSeq(b, 1, Len(a)) = a

\* seq without its i-th element.
RemoveAt(seq, i) == SubSeq(seq, 1, i - 1) \o SubSeq(seq, i + 1, Len(seq))

\* The fields of the records that fix which record stands where.
Keys(seq) == [i \in 1..Len(seq) |-> <<seq[i].id, seq[i].createdAt>>]

CountOf(seq, id) == Cardinality({i \in 1..Len(seq) : seq[i].id = id})

\* The calls of a queue: positions of the calls of op on id after position k.
CallsAfter(q, op, id, k) ==
    {m \in (k + 1)..Len(q) :
        q[m].op = op /\ (IF op = "add" THEN q[m].arg.id ELSE q[m].arg) = id}

Odd(n) == n % 2 = 1

\* The position of the last delete(id) call of q, 0 when there is none.
LastDelete(q, id) ==
    LET ks == CallsAfter(q, "delete", id, 0)
    IN  IF ks = {} THEN 0 ELSE CHOOSE k \in ks : \A m \in ks : m <= k

\* The add calls of q, in the order of the calls.
AddsOf(q) == SelectSeq(q, LAMBDA c : c.op = "add")

\* ---------------------------------------------------------------- claims

\* C1: in every reachable state no two records of the collection have the
\* same id, also when two adds happen at the same clock value.
C1_UniqueIds ==
    \A i, j \in 1..Len(todos) : i # j => todos[i].id # todos[j].id

\* C2: add with an empty or white-space-only input leaves the collection
\* unchanged and reports a validation error (a message is shown).
C2_BlankAddReportsError ==
    [][(lastOp'.op = "add" /\ Blank(input))
        => (todos' = todos /\ message' # Null)]_vars

\* C3: in every reachable state the text of every record is non-empty
\* after trimming.
C3_TextNeverBlank ==
    \A i \in 1..Len(todos) : ~Blank(todos[i].text)

\* C3 witness: a commit of a white-space-only draft was just attempted on a
\* non-empty collection.
C3_Witness ==
    /\ lastOp.op = "commitEdit"
    /\ editingId # Null
    /\ editText = <<" ">>
    /\ Has(todos, editingId)

\* C4: delete(id) while the edit session targets id clears the session
\* (target and draft), and a commitEdit right after it changes nothing in
\* the collection or the session.
C4_DeleteClearsSession ==
    [][/\ (lastOp'.op = "delete" /\ editingId = lastOp'.id)
            => (editingId' = Null /\ editText' = <<>>)
       /\ (/\ lastOp.op = "delete"
           /\ editingId \in {Null, lastOp.id}
           /\ lastOp'.op = "commitEdit")
            => UNCHANGED <<todos, editingId, editText>>]_vars

C6_AddAppendsOne ==
    [][(lastOp'.op = "add" /\ ~Blank(input))
        => /\ Len(todos') = Len(todos) + 1
           /\ todos'[Len(todos')].text = Trim(input)
           /\ todos'[Len(todos')].completed = FALSE
           /\ \A i \in 1..Len(todos) : todos'[i] = todos[i]]_vars

\* C6 witness: a padded input was added after a completed record.
C6_Witness ==
    /\ lastOp.op = "add"
    /\ Len(todos) = 2
    /\ todos[1].completed
    /\ todos[1].text = <<"b">>
    /\ todos[2] = [id |-> now, text |-> <<"a">>, completed |-> FALSE,
                   createdAt |-> now]

\* C7: toggle(id) of an id in the collection flips completed on exactly one
\* record, the one with that id, and leaves every other record, the other
\* fields of that record and the edit session unchanged; toggle of an id not
\* in the collection changes nothing.
C7_ToggleFlipsExactlyOne ==
    [][lastOp'.op = "toggle"
        => /\ editingId' = editingId
           /\ editText' = editText
           /\ IF Has(todos, lastOp'.id)
              THEN \E i \in 1..Len(todos) :
                      /\ todos[i].id = lastOp'.id
                      /\ todos' = [todos EXCEPT
                                     ![i].completed = ~todos[i].completed]
              ELSE todos' = todos]_vars

C9_BlankCommitIsNoOp ==
    [][(lastOp'.op = "commitEdit" /\ editingId # Null /\ Blank(editText))
        => /\ todos' = todos
           /\ editingId' = editingId
           /\ editText' = editText
           /\ message' = message]_vars

\* C9 witness: a white-space-only draft was committed and the session is
\* still open on a record of the collection.
C9_Witness ==
    /\ lastOp.op = "commitEdit"
    /\ editingId # Null
    /\ editText = <<" ">>
    /\ Has(todos, editingId)
    /\ Len(todos) = 2

\* C10: in every reachable state the text of every record has at most 200
\* characters, whether set by add or replaced by commitEdit.
C10_TextWithinMaxLength ==
    \A i \in 1..Len(todos) : Len(todos[i].text) <= MaxLength

\* C11: delete(id) removes the record with that id and no other record, the
\* remaining records unchanged and in their order; delete of an absent id
\* changes nothing, and so does a second delete(id) right after the first.
C11_DeleteRemovesOne ==
    [][lastOp'.op = "delete"
        => /\ IF Has(todos, lastOp'.id)
              THEN \E i \in 1..Len(todos) :
                      /\ todos[i].id = lastOp'.id
                      /\ todos' = RemoveAt(todos, i)
              ELSE todos' = todos
           /\ lastOp = lastOp' => todos' = todos]_vars

\* C12: the collection stays in insertion order: add only appends, toggle and
\* commitEdit keep every record at its position, delete keeps the remaining
\* records in their order, no other operation touches the collection, and
\* the creation times never decrease along the collection.
C12_InsertionOrder ==
    /\ [](\A i, j \in 1..Len(todos) :
            i < j => todos[i].createdAt <= todos[j].createdAt)
    /\ [][todos' # todos =>
          /\ lastOp'.op \in {"add", "toggle", "commitEdit", "delete"}
          /\ lastOp'.op = "add" => IsPrefix(todos, todos')
          /\ lastOp'.op \in {"toggle", "commitEdit"}
                => Keys(todos') = Keys(todos)
          /\ lastOp'.op = "delete" => IsSubseq(todos', todos)]_vars

\* C12 witness: the first of two records with different ids was toggled and
\* is still first.
C12_Witness ==
    /\ lastOp.op = "toggle"
    /\ Len(todos) = 2
    /\ todos[1].id = lastOp.id
    /\ todos[2].id # lastOp.id
    /\ todos[1].completed

\* C13: the statistics are total = number of records, completed = number of
\* completed records, remaining = total - completed, so that
\* 0 <= completed <= total and completed + remaining = total; one add of a
\* valid text to the empty store gives total 1, completed 0, remaining 1.
C13_Stats ==
    /\ [](/\ totalTodos = Len(todos)
          /\ completedTodos
                = Cardinality({i \in 1..Len(todos) : todos[i].completed})
          /\ remainingTodos
                = Cardinality({i \in 1..Len(todos) : ~todos[i].completed})
          /\ 0 <= completedTodos
          /\ completedTodos <= totalTodos
          /\ completedTodos + remainingTodos = totalTodos)
    /\ [][(lastOp'.op = "add" /\ todos = <<>> /\ ~Blank(input))
            => <<totalTodos', completedTodos', remainingTodos'>>
                    = <<1, 0, 1>>]_vars

\* C13 witness: one record completed and one pending.
C13_Witness ==
    /\ totalTodos = 2
    /\ completedTodos = 1
    /\ remainingTodos = 1

\* C14: a record enters the collection only by add and leaves it only by
\* delete; while it is there its id and createdAt never change, its completed
\* flag changes only by toggle of its id and its text only by a commitEdit
\* of a session on its id with a non-empty trimmed draft; startEdit,
\* updateDraft and cancelEdit leave the collection unchanged.
C14_RecordLifecycle ==
    [][todos' # todos =>
       /\ Len(todos') > Len(todos) => lastOp'.op = "add"
       /\ Len(todos') < Len(todos) => lastOp'.op = "delete"
       /\ lastOp'.op = "delete" => IsSubseq(todos', todos)
       /\ lastOp'.op # "delete" =>
            \A i \in 1..Len(todos) :
                /\ todos'[i].id = todos[i].id
                /\ todos'[i].createdAt = todos[i].createdAt
                /\ todos'[i].completed # todos[i].completed
                    => lastOp' = Op("toggle", todos[i].id)
                /\ todos'[i].text # todos[i].text
                    => /\ lastOp' = Op("commitEdit", todos[i].id)
                       /\ todos'[i].text = Trim(editText)
                       /\ ~Blank(editText)
       /\ lastOp'.op \notin {"startEdit", "updateDraft", "cancelEdit"}]_vars

\* C14 witness: a session on a completed record was committed with another
\* text, and the record is still completed.
C14_Witness ==
    /\ lastOp.op = "commitEdit"
    /\ lastOp.id # Null
    /\ editingId = Null
    /\ Len(todos) = 2
    /\ todos[1].id = lastOp.id
    /\ todos[1].completed
    /\ todos[2].id # lastOp.id

\* C15: toggle(id) applied twice in succession, nothing in between, restores
\* the whole collection to what it was before the first of the two.
C15_ToggleTwiceRestores ==
    trail.toggles = 2 => todos = trail.start

\* C15 witness: a record of a collection of two was toggled twice in a row.
C15_Witness ==
    /\ trail.toggles = 2
    /\ lastOp.op = "toggle"
    /\ Has(todos, lastOp.id)
    /\ Len(todos) = 2

\* C16: updateDraft(t) during a session sets the draft to exactly t, not
\* trimmed, keeps the session's target and leaves the collection (so the
\* target record's stored text) unchanged.
C16_UpdateDraftVerbatim ==
    [][lastOp'.op = "updateDraft"
        => /\ editText' = trail'.arg
           /\ editingId' = editingId
           /\ editingId # Null
           /\ todos' = todos]_vars

\* C16 witness: a padded draft was typed over a record whose stored text is
\* another one.
C16_Witness ==
    /\ lastOp.op = "updateDraft"
    /\ trail.arg = <<" ", "a", " ">>
    /\ editText = <<" ", "a", " ">>
    /\ \E i \in 1..Len(todos) :
          todos[i].id = editingId /\ todos[i].text = <<"b">>

\* C17: cancelEdit clears the session in every state, with or without an
\* active session, never changes the collection, and a cancelEdit right
\* after a cancelEdit changes nothing.
C17_CancelClearsIdempotent ==
    [][lastOp'.op = "cancelEdit"
        => /\ editingId' = Null
           /\ editText' = <<>>
           /\ todos' = todos
           /\ lastOp.op = "cancelEdit"
                => UNCHANGED <<todos, editingId, editText>>]_vars

\* C17 witness: a cancelEdit has acted on a collection of two records.
C17_Witness ==
    /\ lastOp.op = "cancelEdit"
    /\ editingId = Null
    /\ editText = <<>>
    /\ Len(todos) = 2

\* C19: in every state the page can reach, while a session is active the
\* list is not shown: the step taken is no toggle, delete or startEdit (only
\* typing, add, draft change, save and cancel, and the clock), and the record
\* the session targets is still in the collection after the step.
C19_EditingHidesList ==
    [][editingId # Null
        => /\ lastOp'.op \in {"tick", "type", "add", "updateDraft",
                              "commitEdit", "cancelEdit"}
           /\ Has(todos, editingId)
           /\ Has(todos', editingId)]_vars

\* C19 witness: a todo was added while a session was open.
C19_Witness ==
    /\ lastOp.op = "add"
    /\ editingId # Null
    /\ Has(todos, editingId)
    /\ Len(todos) = 2
    /\ todos[2].id # editingId

\* C20: editingId = null implies that editText is the empty string, and right
\* after startEdit(id, currentText) the session targets id and editText is
\* the stored text of a record with that id.
C20_EditFieldsConsistent ==
    /\ editingId = Null => editText = <<>>
    /\ lastOp.op = "startEdit"
        => /\ editingId = lastOp.id
           /\ \E i \in 1..Len(todos) :
                 todos[i].id = editingId /\ todos[i].text = editText

\* C20 witness: a session was started on the second record, whose text
\* differs from the first record's.
C20_Witness ==
    /\ lastOp.op = "startEdit"
    /\ Len(todos) = 2
    /\ editingId = todos[2].id
    /\ editingId # todos[1].id
    /\ editText = todos[2].text
    /\ editText # todos[1].text

\* C18: no update is lost when several operations are dispatched on one
\* render: after the render, for every id the collection holds the records
\* of that id it held before plus one per add call, or only those added
\* after the last delete of that id; without a delete call n add calls make
\* it n longer, the new records come last in the order of the calls, and a
\* record's completed flag is flipped once per toggle call of its id.
C18_NoLostUpdate ==
    [][lastOp'.op = "render"
        => LET q == queue
               adds == AddsOf(q)
               noDelete == \A k \in 1..Len(q) : q[k].op # "delete"
           IN  /\ \A id \in Ids :
                    CountOf(todos', id)
                        = IF LastDelete(q, id) = 0
                          THEN CountOf(todos, id)
                                 + Cardinality(CallsAfter(q, "add", id, 0))
                          ELSE Cardinality(
                                 CallsAfter(q, "add", id, LastDelete(q, id)))
               /\ noDelete =>
                    /\ Len(todos') = Len(todos) + Len(adds)
                    /\ \A i \in 1..Len(todos) :
                          todos'[i] =
                            [todos[i] EXCEPT !.completed =
                                (todos[i].completed
                                   # Odd(Cardinality(CallsAfter(
                                           q, "toggle", todos[i].id, 0))))]
                    /\ \A j \in 1..Len(adds) :
                          /\ todos'[Len(todos) + j].id = adds[j].arg.id
                          /\ todos'[Len(todos) + j].text = adds[j].arg.text]_vars

\* C18 witness: one render of the empty collection brought two records.
C18_Witness ==
    /\ lastOp.op = "render"
    /\ trail.start = <<>>
    /\ Len(todos) = 2
    /\ todos[1].text # todos[2].text

====
